---- MODULE Spec2Model ----
(***************************************************************************)
(* Key lifecycle and access-control engine of atp-keyserver.               *)
(*                                                                         *)
(* The group-key half (src/lib/keys/asymmetric.ts:153-337) is a set of     *)
(* synchronous functions over two SQLite tables, `groups` and              *)
(* `group_members`.  Each function runs to completion on the single        *)
(* JavaScript thread, so each call is one atomic action here.              *)
(*                                                                         *)
(* Strings (DIDs, group ids) are sequences of characters so that           *)
(* group_id.split('#') is computed, not assumed.                           *)
(*                                                                         *)
(* randomBytes(32) is a draw from a 2^256 space by a CSPRNG; it is         *)
(* modelled as a source that never repeats a value (`drawn` counts the     *)
(* draws, the n-th draw yields n).                                         *)
(*                                                                         *)
(* src/main.ts:6-13 imports a versioned getKeypair and rotateKeypair from  *)
(* lib/keys/asymmetric; the file under src/ holds only the unversioned     *)
(* getKeypair.  The versioned identity-key operations are therefore        *)
(* modelled from spec.md section 4.1 (getActiveKeypair, rotateKeypair),    *)
(* on top of createKeypair, which is in the source.                        *)
(***************************************************************************)
(* Specifications                                                          *)
(*   Spec      the group-key engine: both group ids, all callers.          *)
(*   SpecKeys  identity keys together with the group-key engine on one     *)
(*             group id, for the statements that speak of both key kinds.  *)
(*   SpecAccess  the group-key engine on one group id with version         *)
(*             listing and a record of the keys handed to members.         *)
(*   SpecCodec  encryptMessage and decryptMessage of                       *)
(*             src/lib/keys/asymmetric.ts:114-151 on strings of UTF-16     *)
(*             code units, bytes and hex digits.                           *)
(*   SpecRoutes  the key retrieval routes of src/main.ts with their audit  *)
(*             log write, which may fail.                                  *)
(*   SpecRace  requests in flight together: getKeypair of                  *)
(*             src/lib/keys/asymmetric.ts:20-45, which awaits key          *)
(*             generation between its SELECT and its INSERT on the table   *)
(*             of src/lib/db.ts (did PRIMARY KEY), and getGroupKey, which  *)
(*             runs without suspending.                                    *)
(***************************************************************************)
EXTENDS Integers, Sequences, FiniteSets, TLC

\* ------------------------------------------------------------------ bounds
\* Highest version a group reaches in Spec, and in SpecKeys.
MaxVersion == 2
MaxKeyVersion == 3
MaxClock == 1
\* Number of requests in flight together in SpecRace.
MaxCalls == 3
\* Number of requests SpecRoutes follows to their response.
MaxRouteCalls == 2
\* Longest plaintext, in UTF-16 code units, SpecCodec encrypts.
MaxTextLen == 1

\* ------------------------------------------------------------ input sets
\* Authenticated callers (ctx.did).
Dids == { <<"a">>, <<"b">> }

\* member_did values sent to addMember / removeMember.
MemberDids == { <<"b">> }

\* group_id values a caller may send: "a#t" (owner part "a") and "b" (no '#').
GroupIds == { <<"a", "#", "t">>, <<"b">> }

\* The group id and the identities used by SpecKeys.
KeyGroupIds == { <<"a", "#", "t">> }
KeyDids == { <<"a">> }

\* `version?: number` : undefined, or the integer parsed from the query.
Undefined == -1
VersionArgs(n) == {Undefined} \cup (0..n)

\* SQL NULL in revoked_at; the value of `key` when a call throws.
Null == -1
NoKey == 0

\* Status of a call that ended with an exception that is not an HTTP error
\* (itty-router answers 500).
Thrown == 500

\* The requests of SpecRace and a request that has not started.
CallIds == 1..MaxCalls
idleCall ==
    [pc |-> "idle", op |-> "none", did |-> <<>>, group_id |-> <<>>,
     kp |-> [privateKey |-> NoKey, publicKey |-> NoKey],
     status |-> 0, privateKey |-> NoKey, publicKey |-> NoKey, key |-> NoKey]

\* No response yet; `logged` tells how the audit-log write of the request
\* ended ("none" when the route did not get to it).
noResponse ==
    [status |-> 0, publicKey |-> NoKey, privateKey |-> NoKey,
     secretKey |-> NoKey, version |-> Undefined, logged |-> "none"]

VARIABLES
    groups,         \* table groups: set of rows
    group_members,  \* table group_members: [<<group_id, member_did>> -> row count]
    keys,           \* table keys (identity keypairs): set of rows
    drawn,          \* number of values drawn from randomBytes so far
    clock,          \* new Date()
    last,           \* the last completed call and its outcome
    granted,        \* history: <<group_id, did, version>> of every key
                    \* a caller other than the owner has been given
    keyTable,       \* table keys of src/lib/db.ts: rows (did, public_key,
                    \* private_key), did PRIMARY KEY
    calls,          \* the requests, each with its position and the result
                    \* of its library call
    key_access_log, \* table key_access_log: rows in insertion order
    route,          \* the route each request came in on
    resp,           \* the response each request was given
    rot,            \* SpecStore: the rotation that is between its UPDATE and
                    \* its INSERT
    observed,       \* SpecStore: what the last query of a second connection
                    \* to the database file saw
    codec           \* SpecCodec: the arguments and results of one
                    \* encryptMessage call and one decryptMessage call

\* Variables of the request-level specifications.
raceVars == <<keyTable, calls>>
routeVars == <<key_access_log, route, resp>>

\* Variables outside the group-key and identity-key engine.
storeVars == <<rot, observed>>
otherVars == <<storeVars, codec>>

aux == <<granted, raceVars, routeVars, otherVars>>

vars == <<groups, group_members, keys, drawn, clock, last, aux>>

\* ---------------------------------------------------------------- helpers
\* group_id.split('#')[0]: the text before the first '#', or the whole
\* string when it has none.
SplitFirst(s) ==
    LET hashes == { i \in 1..Len(s) : s[i] = "#" }
    IN  IF hashes = {} THEN s
        ELSE SubSeq(s, 1, (CHOOSE i \in hashes : \A j \in hashes : i <= j) - 1)

\* Mutation: the generator is not advanced and repeats its last value.
createSecretKey_Repeated == IF drawn = 0 THEN 1 ELSE drawn

\* createSecretKey(): bytesToHex(randomBytes(32)).
createSecretKey == drawn + 1

\* Mutation: the active lookup filters on the wrong status.
getGroup_WrongStatus(group_id, version) ==
    IF version # Undefined
    THEN { r \in groups : r.id = group_id /\ r.version = version }
    ELSE LET act == { r \in groups : r.id = group_id /\ r.status = "revoked" }
         IN  { r \in act : \A q \in act : q.version <= r.version }

\* getGroup(group_id, version): the rows `.get` may return; {} is null.
getGroup(group_id, version) ==
    IF version # Undefined
    THEN { r \in groups : r.id = group_id /\ r.version = version }
    ELSE LET act == { r \in groups : r.id = group_id /\ r.status = "active" }
         IN  { r \in act : \A q \in act : q.version <= r.version }

\* Mutation: the WHERE clause forgets group_id.
checkMembership_AnyGroup(group_id, member_did) ==
    \E g \in GroupIds : group_members[<<g, member_did>>] > 0

\* Mutation: count(*) > 1.
checkMembership_OffByOne(group_id, member_did) ==
    group_members[<<group_id, member_did>>] > 1

\* checkMembership(group_id, member_did): count(*) > 0.
checkMembership(group_id, member_did) ==
    group_members[<<group_id, member_did>>] > 0

\* Mutation: any caller may create the group.
mayCreate_AnyCaller(owner_did, authed_did, version) ==
    version = Undefined

\* Mutation: the owner creates the group also when a version is requested.
mayCreate_AnyVersion(owner_did, authed_did, version) ==
    owner_did = authed_did

\* The condition under which getGroupKey creates a missing group.
mayCreate(owner_did, authed_did, version) ==
    owner_did = authed_did /\ version = Undefined

\* Mutation: the UPDATE is left out.
markRevoked_Skipped(group_id, version, now) == groups

\* Mutation: the old row is deleted instead of updated.
markRevoked_Deleted(group_id, version, now) ==
    { r \in groups : ~(r.id = group_id /\ r.version = version) }

\* Mutation: the UPDATE sets the status and forgets revoked_at.
markRevoked_NoTimestamp(group_id, version, now) ==
    { IF r.id = group_id /\ r.version = version
      THEN [r EXCEPT !.status = "revoked"]
      ELSE r : r \in groups }

\* UPDATE groups SET status = "revoked", revoked_at = now
\*   WHERE id = group_id AND version = version
markRevoked(group_id, version, now) ==
    { IF r.id = group_id /\ r.version = version
      THEN [r EXCEPT !.status = "revoked", !.revoked_at = now]
      ELSE r : r \in groups }

\* Mutation: the increment is 2.
nextVersion_Skip(version) == version + 2

\* Mutation: the increment is forgotten.
nextVersion_Same(version) == version

\* const newVersion = group.version + 1
nextVersion(version) == version + 1

\* Mutation: the INSERT binds the group id in the owner column.
NewGroupRow_IdAsOwner(group_id, version, owner_did, secret_key, now) ==
    [id |-> group_id, version |-> version, owner_did |-> group_id,
     secret_key |-> secret_key, created_at |-> now, revoked_at |-> Null,
     status |-> "active"]

\* The row an INSERT INTO groups adds (revoked_at is not set: NULL).
NewGroupRow(group_id, version, owner_did, secret_key, now) ==
    [id |-> group_id, version |-> version, owner_did |-> owner_did,
     secret_key |-> secret_key, created_at |-> now, revoked_at |-> Null,
     status |-> "active"]

\* The outcome of a call: HTTP-style status (200 = returned normally).
Outcome(op, group_id, authed_did, version, member_did, status, key) ==
    [op |-> op, group_id |-> group_id, authed_did |-> authed_did,
     version |-> version, member_did |-> member_did,
     status |-> status, key |-> key, oldVersion |-> 0, newVersion |-> 0,
     versions |-> <<>>]

\* No rotation is between its two statements.
noRotation ==
    [pc |-> "idle", group_id |-> <<>>, authed_did |-> <<>>, version |-> 0,
     owner_did |-> <<>>, now |-> 0, before |-> {}]

\* ---------------------------------------------------------------- codec
\* A string is a sequence of UTF-16 code units (numbers); a hex string is a
\* sequence of one-character strings; bytes are numbers 0..255.
NONCE_LENGTH == 24

HexDigits ==
    <<"0", "1", "2", "3", "4", "5", "6", "7", "8", "9",
      "a", "b", "c", "d", "e", "f">>
HexUpper == <<"A", "B", "C", "D", "E", "F">>

\* bytesToHex of @noble/ciphers: two lower-case digits per byte.
RECURSIVE bytesToHex(_)
bytesToHex(bytes) ==
    IF bytes = <<>> THEN <<>>
    ELSE <<HexDigits[(Head(bytes) \div 16) + 1],
           HexDigits[(Head(bytes) % 16) + 1]>> \o bytesToHex(Tail(bytes))

\* Value of one hex digit, upper or lower case; -1 for any other character.
asciiToBase16(ch) ==
    IF \E i \in 1..16 : HexDigits[i] = ch
    THEN (CHOOSE i \in 1..16 : HexDigits[i] = ch) - 1
    ELSE IF \E i \in 1..6 : HexUpper[i] = ch
         THEN (CHOOSE i \in 1..6 : HexUpper[i] = ch) + 9
         ELSE -1

\* hexToBytes of @noble/ciphers: throws on an odd length or a character
\* that is not a hex digit.
hexToBytes(hex) ==
    IF Len(hex) % 2 # 0 \/ \E i \in 1..Len(hex) : asciiToBase16(hex[i]) = -1
    THEN [ok |-> FALSE, bytes |-> <<>>]
    ELSE [ok |-> TRUE,
          bytes |-> [i \in 1..(Len(hex) \div 2) |->
                        16 * asciiToBase16(hex[2 * i - 1])
                           + asciiToBase16(hex[2 * i])]]

IsHighSurrogate(c) == c >= 55296 /\ c <= 56319
IsLowSurrogate(c) == c >= 56320 /\ c <= 57343

\* utf8ToBytes / new TextEncoder().encode: UTF-8 of a string; a surrogate
\* without its pair is encoded as U+FFFD.
RECURSIVE utf8ToBytes(_)
utf8ToBytes(str) ==
    IF str = <<>> THEN <<>>
    ELSE LET c == Head(str)
         IN  IF c < 128
             THEN <<c>> \o utf8ToBytes(Tail(str))
             ELSE IF c < 2048
             THEN <<192 + (c \div 64), 128 + (c % 64)>>
                     \o utf8ToBytes(Tail(str))
             ELSE IF /\ IsHighSurrogate(c) /\ Len(str) >= 2
                     /\ IsLowSurrogate(str[2])
             THEN LET cp == 65536 + (c - 55296) * 1024 + (str[2] - 56320)
                  IN  <<240 + (cp \div 262144),
                        128 + ((cp \div 4096) % 64),
                        128 + ((cp \div 64) % 64),
                        128 + (cp % 64)>> \o utf8ToBytes(Tail(Tail(str)))
             ELSE IF IsHighSurrogate(c) \/ IsLowSurrogate(c)
             THEN <<239, 191, 189>> \o utf8ToBytes(Tail(str))
             ELSE <<224 + (c \div 4096), 128 + ((c \div 64) % 64),
                    128 + (c % 64)>> \o utf8ToBytes(Tail(str))

IsContinuation(bytes, i) ==
    i <= Len(bytes) /\ bytes[i] >= 128 /\ bytes[i] <= 191

\* UTF-8 decoding without the fatal flag: a byte that starts no well-formed
\* sequence becomes U+FFFD.
RECURSIVE decodeUtf8(_)
decodeUtf8(bytes) ==
    IF bytes = <<>> THEN <<>>
    ELSE LET b == Head(bytes)
             rest(n) == SubSeq(bytes, n + 1, Len(bytes))
         IN  IF b < 128
             THEN <<b>> \o decodeUtf8(rest(1))
             ELSE IF b >= 194 /\ b <= 223 /\ IsContinuation(bytes, 2)
             THEN <<(b - 192) * 64 + (bytes[2] - 128)>>
                     \o decodeUtf8(rest(2))
             ELSE IF /\ b >= 224 /\ b <= 239
                     /\ IsContinuation(bytes, 2) /\ IsContinuation(bytes, 3)
                     /\ (b = 224 => bytes[2] >= 160)
                     /\ (b = 237 => bytes[2] <= 159)
             THEN <<(b - 224) * 4096 + (bytes[2] - 128) * 64
                       + (bytes[3] - 128)>> \o decodeUtf8(rest(3))
             ELSE IF /\ b >= 240 /\ b <= 244
                     /\ IsContinuation(bytes, 2) /\ IsContinuation(bytes, 3)
                     /\ IsContinuation(bytes, 4)
                     /\ (b = 240 => bytes[2] >= 144)
                     /\ (b = 244 => bytes[2] <= 143)
             THEN LET cp == (b - 240) * 262144 + (bytes[2] - 128) * 4096
                              + (bytes[3] - 128) * 64 + (bytes[4] - 128)
                  IN  <<55296 + ((cp - 65536) \div 1024),
                        56320 + ((cp - 65536) % 1024)>>
                         \o decodeUtf8(rest(4))
             ELSE <<65533>> \o decodeUtf8(rest(1))

\* new TextDecoder().decode(data): ignoreBOM is false, so a byte order mark
\* at the start of the data is not part of the result.
textDecode(data) ==
    LET str == decodeUtf8(data)
    IN  IF str # <<>> /\ Head(str) = 65279 THEN Tail(str) ELSE str

RECURSIVE SumBytes(_)
SumBytes(bytes) ==
    IF bytes = <<>> THEN 0 ELSE (Head(bytes) + SumBytes(Tail(bytes))) % 256

\* Mutation: the cipher is built without the associated data.
cipherFor_NoAad(id, keyBytes, nonce) ==
    [key |-> keyBytes, nonce |-> nonce, aad |-> <<>>]

\* xchacha20poly1305(hexToBytes(key), nonce, utf8ToBytes(id))
cipherFor(id, keyBytes, nonce) ==
    [key |-> keyBytes, nonce |-> nonce, aad |-> utf8ToBytes(id)]

\* The library's cipher, reduced to what its callers rely on: a keystream
\* that depends on key and nonce, and a 16-byte tag over key, nonce,
\* associated data and ciphertext that changes whenever one byte of any
\* of them changes.
keystream(cipher, i) ==
    (SumBytes(cipher.key) + 3 * SumBytes(cipher.nonce) + 7 * i) % 256

tagOf(cipher, body) ==
    <<SumBytes(cipher.key), SumBytes(cipher.nonce), SumBytes(cipher.aad),
      Len(cipher.aad) % 256, SumBytes(body), Len(body) % 256,
      (SumBytes(cipher.key) + SumBytes(body)) % 256,
      (SumBytes(cipher.nonce) + SumBytes(cipher.aad)) % 256,
      0, 0, 0, 0, 0, 0, 0, 0>>

\* cipher.encrypt(data): ciphertext followed by the tag.
cipherEncrypt(cipher, data) ==
    LET body == [i \in 1..Len(data) |->
                    (data[i] + keystream(cipher, i)) % 256]
    IN  body \o tagOf(cipher, body)

\* cipher.decrypt(data): throws unless the key has 32 bytes, the nonce 24,
\* the data holds a tag and the tag is the one of the ciphertext.
cipherDecrypt(cipher, data) ==
    LET tagLength == Len(tagOf(cipher, <<>>))
        body == SubSeq(data, 1, Len(data) - tagLength)
        tag == SubSeq(data, Len(data) - tagLength + 1, Len(data))
    IN  IF Len(cipher.key) # 32 \/ Len(cipher.nonce) # NONCE_LENGTH
        THEN [ok |-> FALSE, error |-> "Error", data |-> <<>>]
        ELSE IF Len(data) < tagLength
        THEN [ok |-> FALSE, error |-> "Error", data |-> <<>>]
        ELSE IF tag # tagOf(cipher, body)
        THEN [ok |-> FALSE, error |-> "invalid tag", data |-> <<>>]
        ELSE [ok |-> TRUE, error |-> "",
              data |-> [i \in 1..Len(body) |->
                           (body[i] + 256 - keystream(cipher, i)) % 256]]

\* encryptMessage(id, key, plaintext) when randomBytes yields `nonce`.
encryptMessage(id, key, plaintext, nonce) ==
    LET cipher == cipherFor(id, hexToBytes(key).bytes, nonce)
        data == utf8ToBytes(plaintext)
        ciphertext == cipherEncrypt(cipher, data)
    IN  bytesToHex(nonce) \o bytesToHex(ciphertext)

\* String.prototype.slice(from, to) with 0-based, clamped positions.
slice(str, from, to) ==
    SubSeq(str, from + 1, IF to < Len(str) THEN to ELSE Len(str))

\* decryptMessage(id, key, ciphertext): the text, or the exception thrown.
decryptMessage(id, key, ciphertext) ==
    LET nonce == slice(ciphertext, 0, NONCE_LENGTH * 2)
        message == slice(ciphertext, NONCE_LENGTH * 2, Len(ciphertext))
        k == hexToBytes(key)
        n == hexToBytes(nonce)
        m == hexToBytes(message)
        Throw(e) == [ok |-> FALSE, error |-> e, text |-> <<>>]
    IN  IF ~k.ok \/ ~n.ok \/ ~m.ok
        THEN Throw("Error")
        ELSE LET data == cipherDecrypt(cipherFor(id, k.bytes, n.bytes),
                                       m.bytes)
             IN  IF ~data.ok
                 THEN Throw(data.error)
                 ELSE [ok |-> TRUE, error |-> "",
                       text |-> textDecode(data.data)]

\* Inputs of SpecCodec. Code units: a, e-acute, a high and a low surrogate,
\* the byte order mark.
CodeUnits == {97, 233, 55296, 56320, 65279}
RECURSIVE Texts(_)
Texts(n) ==
    IF n = 0 THEN {<<>>}
    ELSE Texts(n - 1) \cup
         { <<c>> \o t : c \in CodeUnits,
                        t \in { u \in Texts(n - 1) : Len(u) = n - 1 } }
CodecAads == {<<97>>, <<55296>>, <<56319>>}
\* Keys as createSecretKey makes them: 32 bytes in lower-case hex.
CodecKeys == { bytesToHex([i \in 1..32 |-> (83 * n + 29 * i) % 256]) :
                 n \in 1..2 }
CodecNonces == { [i \in 1..NONCE_LENGTH |-> (61 * n + 43 * i) % 256] :
                   n \in 1..2 }

noCodec ==
    [pc |-> "none", id |-> <<>>, key |-> <<>>, plaintext |-> <<>>,
     envelope |-> <<>>, id2 |-> <<>>, key2 |-> <<>>, envelope2 |-> <<>>,
     result |-> [ok |-> FALSE, error |-> "", text |-> <<>>]]

\* ------------------------------------------------------------------- Init
InitStore ==
    /\ groups = {}
    /\ group_members = [p \in GroupIds \X Dids |-> 0]
    /\ keys = {}
    /\ drawn = 0
    /\ clock = 0
    /\ last = Outcome("none", <<>>, <<>>, Undefined, <<>>, 0, NoKey)
    /\ granted = {}
    /\ keyTable = {}
    /\ calls = [c \in CallIds |-> idleCall]
    /\ key_access_log = <<>>
    /\ route = [c \in CallIds |-> "none"]
    /\ resp = [c \in CallIds |-> noResponse]
    /\ rot = noRotation
    /\ observed = [group_id |-> <<>>, rows |-> 0, active |-> 0,
                   midRotation |-> FALSE]

Init == InitStore /\ codec = noCodec

\* SpecCodec starts with the arguments of the encryptMessage call.
InitCodec ==
    /\ InitStore
    /\ \E id \in CodecAads, key \in CodecKeys, plaintext \in Texts(MaxTextLen) :
          codec = [noCodec EXCEPT !.pc = "input", !.id = id, !.key = key,
                                  !.plaintext = plaintext]

\* ---------------------------------------------------------------- actions
Tick ==
    /\ clock < MaxClock
    /\ clock' = clock + 1
    /\ UNCHANGED <<groups, group_members, keys, drawn, last>>

\* createGroup(group_id, owner_did): INSERT version 1, active.
createGroup(group_id, owner_did) ==
    /\ groups' = groups \cup
           {NewGroupRow(group_id, 1, owner_did, createSecretKey, clock)}
    /\ drawn' = drawn + 1

getGroupKey(group_id, authed_did, version) ==
    LET owner_did == SplitFirst(group_id)
        found == getGroup(group_id, version)
        Ret(status, key) ==
            last' = Outcome("getGroupKey", group_id, authed_did, version,
                            <<>>, status, key)
    IN  /\ UNCHANGED <<group_members, keys, clock>>
        /\ IF found = {}
           THEN IF mayCreate(owner_did, authed_did, version)
                THEN /\ createGroup(group_id, owner_did)
                     /\ Ret(200, createSecretKey)
                ELSE /\ Ret(404, NoKey)
                     /\ UNCHANGED <<groups, drawn>>
           ELSE \E group \in found :
                /\ UNCHANGED <<groups, drawn>>
                /\ IF group.owner_did = authed_did
                   THEN Ret(200, group.secret_key)
                   ELSE IF checkMembership(group_id, authed_did)
                        THEN Ret(200, group.secret_key)
                        ELSE Ret(403, NoKey)

\* Mutation: rotateGroupKey without the owner check.
rotateGroupKey_AnyCaller(group_id, authed_did) ==
    LET found == getGroup(group_id, Undefined)
        Ret(status, old, new) ==
            last' = [Outcome("rotateGroupKey", group_id, authed_did,
                             Undefined, <<>>, status, NoKey)
                     EXCEPT !.oldVersion = old, !.newVersion = new]
    IN  /\ UNCHANGED <<group_members, keys, clock>>
        /\ IF found = {}
           THEN /\ Ret(404, 0, 0)
                /\ UNCHANGED <<groups, drawn>>
           ELSE \E group \in found :
                LET now == clock
                    updated == markRevoked(group_id, group.version, now)
                    newVersion == nextVersion(group.version)
                    newKey == createSecretKey
                IN  /\ groups' = updated \cup
                           {NewGroupRow(group_id, newVersion,
                                        group.owner_did, newKey, now)}
                    /\ drawn' = drawn + 1
                    /\ Ret(200, group.version, newVersion)

\* Mutation: a rotation also empties the member list of the group.
rotateGroupKey_ClearsMembers(group_id, authed_did) ==
    LET found == getGroup(group_id, Undefined)
        Ret(status, old, new) ==
            last' = [Outcome("rotateGroupKey", group_id, authed_did,
                             Undefined, <<>>, status, NoKey)
                     EXCEPT !.oldVersion = old, !.newVersion = new]
    IN  /\ UNCHANGED <<keys, clock>>
        /\ IF found = {}
           THEN /\ Ret(404, 0, 0)
                /\ UNCHANGED <<groups, drawn, group_members>>
           ELSE \E group \in found :
                IF group.owner_did # authed_did
                THEN /\ Ret(403, 0, 0)
                     /\ UNCHANGED <<groups, drawn, group_members>>
                ELSE LET now == clock
                         updated == markRevoked(group_id, group.version, now)
                         newVersion == nextVersion(group.version)
                         newKey == createSecretKey
                     IN  /\ groups' = updated \cup
                                {NewGroupRow(group_id, newVersion,
                                             group.owner_did, newKey, now)}
                         /\ group_members' =
                                [p \in DOMAIN group_members |->
                                    IF p[1] = group_id THEN 0
                                    ELSE group_members[p]]
                         /\ drawn' = drawn + 1
                         /\ Ret(200, group.version, newVersion)

rotateGroupKey(group_id, authed_did) ==
    LET found == getGroup(group_id, Undefined)
        Ret(status, old, new) ==
            last' = [Outcome("rotateGroupKey", group_id, authed_did,
                             Undefined, <<>>, status, NoKey)
                     EXCEPT !.oldVersion = old, !.newVersion = new]
    IN  /\ UNCHANGED <<group_members, keys, clock>>
        /\ IF found = {}
           THEN /\ Ret(404, 0, 0)
                /\ UNCHANGED <<groups, drawn>>
           ELSE \E group \in found :
                IF group.owner_did # authed_did
                THEN /\ Ret(403, 0, 0)
                     /\ UNCHANGED <<groups, drawn>>
                ELSE LET now == clock
                         updated == markRevoked(group_id, group.version, now)
                         newVersion == nextVersion(group.version)
                         newKey == createSecretKey
                     IN  /\ groups' = updated \cup
                                {NewGroupRow(group_id, newVersion,
                                             group.owner_did, newKey, now)}
                         /\ drawn' = drawn + 1
                         /\ Ret(200, group.version, newVersion)

\* Mutation: ORDER BY version ASC.
RECURSIVE orderByVersionDesc_Asc(_)
orderByVersionDesc_Asc(rows) ==
    IF rows = {} THEN <<>>
    ELSE LET low == CHOOSE r \in rows : \A q \in rows : r.version <= q.version
         IN  <<low>> \o orderByVersionDesc_Asc(rows \ {low})

\* ORDER BY version DESC: the rows as a sequence, highest version first.
RECURSIVE orderByVersionDesc(_)
orderByVersionDesc(rows) ==
    IF rows = {} THEN <<>>
    ELSE LET top == CHOOSE r \in rows : \A q \in rows : q.version <= r.version
         IN  <<top>> \o orderByVersionDesc(rows \ {top})

\* .map(row => ({version, status, created_at, revoked_at}))
versionInfo(row) ==
    [version |-> row.version, status |-> row.status,
     created_at |-> row.created_at, revoked_at |-> row.revoked_at]

listGroupKeyVersions(group_id, authed_did) ==
    LET found == getGroup(group_id, Undefined)
        Ret(status, list) ==
            last' = [Outcome("listGroupKeyVersions", group_id, authed_did,
                             Undefined, <<>>, status, NoKey)
                     EXCEPT !.versions = list]
    IN  /\ UNCHANGED <<groups, group_members, keys, drawn, clock>>
        /\ IF found = {}
           THEN Ret(404, <<>>)
           ELSE \E group \in found :
                IF /\ group.owner_did # authed_did
                   /\ ~checkMembership(group_id, authed_did)
                THEN Ret(403, <<>>)
                ELSE LET all == orderByVersionDesc(
                                  { r \in groups : r.id = group_id })
                     IN  Ret(200, [i \in 1..Len(all) |-> versionInfo(all[i])])

addMember(group_id, member_did, authed_did) ==
    LET found == getGroup(group_id, Undefined)
        Ret(status) ==
            last' = Outcome("addMember", group_id, authed_did, Undefined,
                            member_did, status, NoKey)
    IN  /\ UNCHANGED <<groups, keys, drawn, clock>>
        /\ IF found = {}
           THEN Ret(404) /\ UNCHANGED group_members
           ELSE \E group \in found :
                IF group.owner_did # authed_did
                THEN Ret(403) /\ UNCHANGED group_members
                ELSE IF checkMembership(group_id, member_did)
                     THEN Ret(409) /\ UNCHANGED group_members
                     ELSE \* INSERT INTO group_members
                          /\ group_members' =
                                [group_members EXCEPT
                                   ![<<group_id, member_did>>] = @ + 1]
                          /\ Ret(200)

\* Mutation: the DELETE matches no row.
removeMember_NoDelete(group_id, member_did, authed_did) ==
    LET found == getGroup(group_id, Undefined)
        Ret(status) ==
            last' = Outcome("removeMember", group_id, authed_did, Undefined,
                            member_did, status, NoKey)
    IN  /\ UNCHANGED <<groups, keys, drawn, clock, group_members>>
        /\ IF found = {}
           THEN Ret(404)
           ELSE \E group \in found :
                IF group.owner_did # authed_did
                THEN Ret(403)
                ELSE IF ~checkMembership(group_id, member_did)
                     THEN Ret(404)
                     ELSE Ret(200)

\* Mutation: removeMember without the owner check.
removeMember_AnyCaller(group_id, member_did, authed_did) ==
    LET found == getGroup(group_id, Undefined)
        Ret(status) ==
            last' = Outcome("removeMember", group_id, authed_did, Undefined,
                            member_did, status, NoKey)
    IN  /\ UNCHANGED <<groups, keys, drawn, clock>>
        /\ IF found = {}
           THEN Ret(404) /\ UNCHANGED group_members
           ELSE IF ~checkMembership(group_id, member_did)
                THEN Ret(404) /\ UNCHANGED group_members
                ELSE /\ group_members' =
                          [group_members EXCEPT
                             ![<<group_id, member_did>>] = 0]
                     /\ Ret(200)

removeMember(group_id, member_did, authed_did) ==
    LET found == getGroup(group_id, Undefined)
        Ret(status) ==
            last' = Outcome("removeMember", group_id, authed_did, Undefined,
                            member_did, status, NoKey)
    IN  /\ UNCHANGED <<groups, keys, drawn, clock>>
        /\ IF found = {}
           THEN Ret(404) /\ UNCHANGED group_members
           ELSE \E group \in found :
                IF group.owner_did # authed_did
                THEN Ret(403) /\ UNCHANGED group_members
                ELSE IF ~checkMembership(group_id, member_did)
                     THEN Ret(404) /\ UNCHANGED group_members
                     ELSE \* DELETE FROM group_members WHERE group_id, member_did
                          /\ group_members' =
                                [group_members EXCEPT
                                   ![<<group_id, member_did>>] = 0]
                          /\ Ret(200)

\* ------------------------------------------------- identity keypairs
\* createKeypair(): a random private key and the public key derived from it.
PublicOf(privateKey) == 0 - privateKey

createKeypair ==
    [privateKey |-> drawn + 1, publicKey |-> PublicOf(drawn + 1)]

\* The active rows of an identity.
activeKeys(did) == { r \in keys : r.did = did /\ r.status = "active" }

NewKeyRow(did, version, kp, now) ==
    [did |-> did, version |-> version, public_key |-> kp.publicKey,
     private_key |-> kp.privateKey, created_at |-> now, revoked_at |-> Null,
     status |-> "active"]

\* getActiveKeypair(identityId): the active record, created as version 1
\* when the identity has none.
getActiveKeypair(did) ==
    LET found == activeKeys(did)
        Ret(row) ==
            last' = [Outcome("getActiveKeypair", <<>>, did, Undefined, <<>>,
                             200, row.private_key)
                     EXCEPT !.newVersion = row.version]
    IN  /\ UNCHANGED <<groups, group_members, clock>>
        /\ IF found = {}
           THEN LET row == NewKeyRow(did, 1, createKeypair, clock)
                IN  /\ keys' = keys \cup {row}
                    /\ drawn' = drawn + 1
                    /\ Ret(row)
           ELSE \E row \in found :
                /\ Ret(row)
                /\ UNCHANGED <<keys, drawn>>

\* rotate(identityId, reason): revoke the active version and insert
\* oldVersion + 1 as active; NotFound when the identity has no key.
rotateKeypair(did) ==
    LET found == activeKeys(did)
        Ret(status, old, new) ==
            last' = [Outcome("rotateKeypair", <<>>, did, Undefined, <<>>,
                             status, NoKey)
                     EXCEPT !.oldVersion = old, !.newVersion = new]
    IN  /\ UNCHANGED <<groups, group_members, clock>>
        /\ IF found = {}
           THEN /\ Ret(404, 0, 0)
                /\ UNCHANGED <<keys, drawn>>
           ELSE \E cur \in found :
                LET now == clock
                    updated ==
                        { IF r.did = did /\ r.version = cur.version
                          THEN [r EXCEPT !.status = "revoked",
                                         !.revoked_at = now]
                          ELSE r : r \in keys }
                IN  /\ keys' = updated \cup
                           {NewKeyRow(did, cur.version + 1, createKeypair, now)}
                    /\ drawn' = drawn + 1
                    /\ Ret(200, cur.version, cur.version + 1)

\* Rotation is offered while every version of the id is below the cap n.
belowCap(rows, n) == \A r \in rows : r.version < n

groupRows(group_id) == { r \in groups : r.id = group_id }
keyRows(did) == { r \in keys : r.did = did }

\* ------------------------------------------- requests in flight together
\* SELECT public_key, private_key FROM keys WHERE did = ?
selectKeypair(did) == { r \in keyTable : r.did = did }

\* Mutation: INSERT OR REPLACE.
insertKeypair_Replace(did, kp) ==
    [ok |-> TRUE,
     table |-> { r \in keyTable : r.did # did } \cup
               {[did |-> did, public_key |-> kp.publicKey,
                 private_key |-> kp.privateKey]}]

\* INSERT INTO keys (did, public_key, private_key): did is the primary
\* key, so the statement throws when the did has a row.
insertKeypair(did, kp) ==
    IF \E r \in keyTable : r.did = did
    THEN [ok |-> FALSE, table |-> keyTable]
    ELSE [ok |-> TRUE,
          table |-> keyTable \cup
                    {[did |-> did, public_key |-> kp.publicKey,
                      private_key |-> kp.privateKey]}]

\* getKeypair up to `await createKeypair()`: the SELECT, the return of an
\* existing row, or the start of key generation.
getKeypairSelect(c, did) ==
    /\ calls[c].pc = "idle"
    /\ UNCHANGED <<groups, group_members, keys, clock, last, keyTable>>
    /\ LET result == selectKeypair(did)
       IN  IF result # {}
           THEN /\ \E r \in result :
                     calls' = [calls EXCEPT ![c] =
                        [idleCall EXCEPT !.pc = "done", !.op = "getKeypair",
                                         !.did = did, !.status = 200,
                                         !.publicKey = r.public_key,
                                         !.privateKey = r.private_key]]
                /\ UNCHANGED drawn
           ELSE /\ calls' = [calls EXCEPT ![c] =
                        [idleCall EXCEPT !.pc = "await", !.op = "getKeypair",
                                         !.did = did, !.kp = createKeypair]]
                /\ drawn' = drawn + 1

\* getKeypair after the await: the INSERT and the return of newKeypair.
getKeypairInsert(c) ==
    /\ calls[c].pc = "await"
    /\ UNCHANGED <<groups, group_members, keys, clock, last, drawn>>
    /\ LET me == calls[c]
           res == insertKeypair(me.did, me.kp)
       IN  /\ keyTable' = res.table
           /\ calls' = [calls EXCEPT ![c] =
                 IF res.ok
                 THEN [me EXCEPT !.pc = "done", !.status = 200,
                                 !.publicKey = me.kp.publicKey,
                                 !.privateKey = me.kp.privateKey]
                 ELSE [me EXCEPT !.pc = "done", !.status = Thrown]]

\* A request for a group key: getGroupKey has no await, it runs from its
\* SELECT to its return as one step of the event loop.
groupKeyCall(c, group_id, authed_did) ==
    /\ calls[c].pc = "idle"
    /\ getGroupKey(group_id, authed_did, Undefined)
    /\ calls' = [calls EXCEPT ![c] =
          [idleCall EXCEPT !.pc = "done", !.op = "getGroupKey",
                           !.did = authed_did, !.group_id = group_id,
                           !.status = last'.status, !.key = last'.key]]
    /\ UNCHANGED keyTable

NextRace ==
    \/ Tick /\ UNCHANGED aux
    \/ \E c \in CallIds, d \in Dids :
          getKeypairSelect(c, d) /\ UNCHANGED <<granted, routeVars, otherVars>>
    \/ \E c \in CallIds :
          getKeypairInsert(c) /\ UNCHANGED <<granted, routeVars, otherVars>>
    \/ \E c \in CallIds, g \in GroupIds, d \in Dids :
          groupKeyCall(c, g, d) /\ UNCHANGED <<granted, routeVars, otherVars>>

\* ------------------------------------------------ routes and audit log
\* logKeyAccess(did, version): one INSERT into key_access_log, with no
\* try/catch. `stored` is whether the store carried the INSERT out; when it
\* did not, the statement throws.
logKeyAccess(did, version, stored) ==
    IF stored
    THEN [ok |-> TRUE,
          log |-> Append(key_access_log,
                         [did |-> did, version |-> version,
                          accessed_at |-> clock])]
    ELSE [ok |-> FALSE, log |-> key_access_log]

\* What the catch block of each route answers: error(404) for the public
\* key, error(500) for the personal key; the group route rethrows.
catchStatus(r) == IF r = "key.public" THEN 404 ELSE Thrown

\* Start of GET key and GET key.public: the call of getKeypair.
keyRouteStart(c, r, did) ==
    /\ getKeypairSelect(c, did)
    /\ route' = [route EXCEPT ![c] = r]
    /\ UNCHANGED <<key_access_log, resp, granted, otherVars>>

\* Rest of GET key and GET key.public once getKeypair has returned or
\* thrown: the audit-log write and the response, inside one try block.
keyRouteRespond(c, stored) ==
    /\ calls[c].pc = "done" /\ calls[c].op = "getKeypair"
    /\ resp[c].status = 0
    /\ UNCHANGED <<groups, group_members, keys, drawn, clock, last,
                   raceVars, route, granted, otherVars>>
    /\ IF calls[c].status # 200
       THEN /\ resp' = [resp EXCEPT ![c] =
                  [noResponse EXCEPT !.status = catchStatus(route[c])]]
            /\ UNCHANGED key_access_log
       ELSE LET version == IF route[c] = "key.public" THEN 1 ELSE Undefined
                w == logKeyAccess(calls[c].did, version, stored)
            IN  /\ key_access_log' = w.log
                /\ resp' = [resp EXCEPT ![c] =
                     IF w.ok
                     THEN [noResponse EXCEPT
                             !.status = 200,
                             !.publicKey = calls[c].publicKey,
                             !.privateKey = IF route[c] = "key"
                                            THEN calls[c].privateKey
                                            ELSE NoKey,
                             !.version = version,
                             !.logged = "ok"]
                     ELSE [noResponse EXCEPT
                             !.status = catchStatus(route[c]),
                             !.logged = "failed"]]

\* GET group.key: getGroupKey, the audit-log write and the response; the
\* handler has no await.
groupKeyRoute(c, group_id, authed_did, keyVersion, stored) ==
    /\ calls[c].pc = "idle"
    /\ getGroupKey(group_id, authed_did, keyVersion)
    /\ calls' = [calls EXCEPT ![c] =
          [idleCall EXCEPT !.pc = "done", !.op = "getGroupKey",
                           !.did = authed_did, !.group_id = group_id,
                           !.status = last'.status, !.key = last'.key]]
    /\ route' = [route EXCEPT ![c] = "group.key"]
    /\ UNCHANGED <<keyTable, granted, otherVars>>
    /\ IF last'.status # 200
       THEN /\ resp' = [resp EXCEPT ![c] =
                  [noResponse EXCEPT !.status = last'.status]]
            /\ UNCHANGED key_access_log
       ELSE LET version == IF keyVersion = Undefined THEN 1 ELSE keyVersion
                w == logKeyAccess(group_id, version, stored)
            IN  /\ key_access_log' = w.log
                /\ resp' = [resp EXCEPT ![c] =
                     IF w.ok
                     THEN [noResponse EXCEPT !.status = 200,
                                             !.secretKey = last'.key,
                                             !.version = version,
                                             !.logged = "ok"]
                     ELSE [noResponse EXCEPT !.status = Thrown,
                                             !.logged = "failed"]]

RouteCallIds == 1..MaxRouteCalls

NextRoutes ==
    \/ Tick /\ UNCHANGED aux
    \/ \E c \in RouteCallIds, r \in {"key", "key.public"}, d \in Dids :
          keyRouteStart(c, r, d)
    \/ \E c \in RouteCallIds :
          getKeypairInsert(c) /\ UNCHANGED <<granted, routeVars, otherVars>>
    \/ \E c \in RouteCallIds, stored \in BOOLEAN : keyRouteRespond(c, stored)
    \/ \E c \in RouteCallIds, g \in KeyGroupIds, d \in Dids,
          v \in VersionArgs(1), stored \in BOOLEAN :
          groupKeyRoute(c, g, d, v, stored)
    \/ \E g \in KeyGroupIds, d \in Dids :
          /\ belowCap(groupRows(g), MaxVersion) /\ rotateGroupKey(g, d)
          /\ UNCHANGED aux

\* ------------------------------------------------ store statements
\* The rows of a group id when rotateGroupKey is entered.
groupRowsBefore(group_id) == { r \in groups : r.id = group_id }

\* rotateGroupKey up to and including its UPDATE statement. The function
\* opens no transaction, so the UPDATE is committed on its own.
rotateRevoke(group_id, authed_did) ==
    LET found == getGroup(group_id, Undefined)
        Ret(status) ==
            last' = Outcome("rotateGroupKey", group_id, authed_did,
                            Undefined, <<>>, status, NoKey)
    IN  /\ rot.pc = "idle"
        /\ UNCHANGED <<group_members, keys, clock, drawn, observed>>
        /\ IF found = {}
           THEN Ret(404) /\ UNCHANGED <<groups, rot>>
           ELSE \E group \in found :
                IF group.owner_did # authed_did
                THEN Ret(403) /\ UNCHANGED <<groups, rot>>
                ELSE /\ groups' = markRevoked(group_id, group.version, clock)
                     /\ rot' = [pc |-> "revoked", group_id |-> group_id,
                                authed_did |-> authed_did,
                                version |-> group.version,
                                owner_did |-> group.owner_did,
                                now |-> clock,
                                before |-> groupRowsBefore(group_id)]
                     /\ UNCHANGED last

\* The rest of rotateGroupKey: the INSERT of the new version, the return.
rotateInsert ==
    /\ rot.pc = "revoked"
    /\ LET newVersion == nextVersion(rot.version)
           newKey == createSecretKey
       IN  /\ groups' = groups \cup
                  {NewGroupRow(rot.group_id, newVersion, rot.owner_did,
                               newKey, rot.now)}
           /\ last' = [Outcome("rotateGroupKey", rot.group_id,
                               rot.authed_did, Undefined, <<>>, 200, NoKey)
                       EXCEPT !.oldVersion = rot.version,
                              !.newVersion = newVersion]
    /\ drawn' = drawn + 1
    /\ rot' = noRotation
    /\ UNCHANGED <<group_members, keys, clock, observed>>

\* The INSERT of rotateGroupKey throws (the store fails): the exception
\* leaves the function, which has no catch and no transaction to roll
\* back. The model follows the server up to this first store failure.
rotateInsertThrows ==
    /\ rot.pc = "revoked"
    /\ rot' = [rot EXCEPT !.pc = "failed"]
    /\ last' = Outcome("rotateGroupKey", rot.group_id, rot.authed_did,
                       Undefined, <<>>, Thrown, NoKey)
    /\ UNCHANGED <<groups, group_members, keys, drawn, clock, observed>>

\* A query of the rows of one group id over a second connection to the
\* database file; it sees what is committed.
storeRead(group_id) ==
    /\ observed' =
          [group_id |-> group_id,
           rows |-> Cardinality({ r \in groups : r.id = group_id }),
           active |-> Cardinality({ r \in groups :
                                     r.id = group_id /\ r.status = "active" }),
           midRotation |-> rot.pc = "revoked" /\ rot.group_id = group_id]
    /\ UNCHANGED <<groups, group_members, keys, drawn, clock, last, rot>>

Next ==
    \/ Tick /\ UNCHANGED aux
    \/ \E g \in GroupIds, d \in Dids, v \in VersionArgs(MaxVersion) :
          getGroupKey(g, d, v) /\ UNCHANGED aux
    \/ \E g \in GroupIds, d \in Dids :
          /\ belowCap(groupRows(g), MaxVersion) /\ rotateGroupKey(g, d)
          /\ UNCHANGED aux
    \/ \E g \in GroupIds, m \in MemberDids, d \in Dids :
          addMember(g, m, d) /\ UNCHANGED aux
    \/ \E g \in GroupIds, m \in MemberDids, d \in Dids :
          removeMember(g, m, d) /\ UNCHANGED aux

NextKeys ==
    \/ Tick /\ UNCHANGED aux
    \/ \E g \in KeyGroupIds, d \in Dids, v \in VersionArgs(MaxKeyVersion) :
          getGroupKey(g, d, v) /\ UNCHANGED aux
    \/ \E g \in KeyGroupIds, d \in Dids :
          /\ belowCap(groupRows(g), MaxKeyVersion) /\ rotateGroupKey(g, d)
          /\ UNCHANGED aux
    \/ \E g \in KeyGroupIds, m \in MemberDids, d \in Dids :
          addMember(g, m, d) /\ UNCHANGED aux
    \/ \E g \in KeyGroupIds, m \in MemberDids, d \in Dids :
          removeMember(g, m, d) /\ UNCHANGED aux
    \/ \E d \in KeyDids : getActiveKeypair(d) /\ UNCHANGED aux
    \/ \E d \in KeyDids :
          /\ belowCap(keyRows(d), MaxKeyVersion) /\ rotateKeypair(d)
          /\ UNCHANGED aux

\* The keys handed out by the getGroupKey step just taken to a caller who
\* is not the owner of the record, with the version of the record.
grantedNow ==
    IF last'.op = "getGroupKey" /\ last'.status = 200
    THEN { <<r.id, last'.authed_did, r.version>> :
             r \in { q \in groups' : /\ q.id = last'.group_id
                                     /\ q.secret_key = last'.key
                                     /\ q.owner_did # last'.authed_did } }
    ELSE {}

NextAccess ==
    \/ Tick /\ UNCHANGED aux
    \/ \E g \in KeyGroupIds, d \in Dids, v \in VersionArgs(MaxKeyVersion) :
          getGroupKey(g, d, v) /\ granted' = granted \cup grantedNow
                                 /\ UNCHANGED <<raceVars, routeVars, otherVars>>
    \/ \E g \in KeyGroupIds, d \in Dids :
          /\ belowCap(groupRows(g), MaxKeyVersion) /\ rotateGroupKey(g, d)
          /\ UNCHANGED aux
    \/ \E g \in KeyGroupIds, d \in Dids :
          listGroupKeyVersions(g, d) /\ UNCHANGED aux
    \/ \E g \in KeyGroupIds, m \in MemberDids, d \in Dids :
          addMember(g, m, d) /\ UNCHANGED aux
    \/ \E g \in KeyGroupIds, m \in MemberDids, d \in Dids :
          removeMember(g, m, d) /\ UNCHANGED aux

Spec == Init /\ [][Next]_vars

SpecKeys == Init /\ [][NextKeys]_vars

SpecAccess == Init /\ [][NextAccess]_vars

SpecRace == Init /\ [][NextRace]_vars

SpecRoutes == Init /\ [][NextRoutes]_vars

\* The server runs one handler at a time, so its other operations start
\* only when no rotation is under way; the second connection reads at any
\* statement boundary.
NextStore ==
    \/ Tick /\ UNCHANGED aux
    \/ \E g \in GroupIds, d \in Dids :
          /\ rot.pc = "idle"
          /\ getGroupKey(g, d, Undefined) /\ UNCHANGED aux
    \/ \E g \in GroupIds, d \in Dids :
          /\ belowCap(groupRows(g), MaxVersion)
          /\ rotateRevoke(g, d)
          /\ UNCHANGED <<granted, raceVars, routeVars, codec>>
    \/ rotateInsert /\ UNCHANGED <<granted, raceVars, routeVars, codec>>
    \/ rotateInsertThrows
          /\ UNCHANGED <<granted, raceVars, routeVars, codec>>
    \/ \E g \in GroupIds :
          storeRead(g) /\ UNCHANGED <<granted, raceVars, routeVars, codec>>

SpecStore == Init /\ [][NextStore]_vars

\* ------------------------------------------------------- codec actions
toUpperCase(str) ==
    [i \in 1..Len(str) |->
        IF \E j \in 1..6 : HexDigits[10 + j] = str[i]
        THEN HexUpper[CHOOSE j \in 1..6 : HexDigits[10 + j] = str[i]]
        ELSE str[i]]

\* The envelopes a holder of `envelope` can hand to decryptMessage: the
\* envelope, every change of one character, every proper prefix.
AlterChars == {"0", "A", "g"}
Altered(envelope) ==
    {envelope}
    \cup { [envelope EXCEPT ![i] = ch] :
             i \in 1..Len(envelope), ch \in AlterChars }
    \cup { SubSeq(envelope, 1, n) : n \in 0..(Len(envelope) - 1) }

encryptStep ==
    /\ codec.pc = "input"
    /\ \E nonce \in CodecNonces :
          codec' = [codec EXCEPT
                      !.pc = "sealed",
                      !.envelope = encryptMessage(codec.id, codec.key,
                                                  codec.plaintext, nonce)]
    /\ UNCHANGED <<groups, group_members, keys, drawn, clock, last,
                   granted, raceVars, routeVars, storeVars>>

decryptStep(id2, key2, envelope2) ==
    /\ codec.pc = "sealed"
    /\ codec' = [codec EXCEPT
                   !.pc = "opened", !.id2 = id2, !.key2 = key2,
                   !.envelope2 = envelope2,
                   !.result = decryptMessage(id2, key2, envelope2)]
    /\ UNCHANGED <<groups, group_members, keys, drawn, clock, last,
                   granted, raceVars, routeVars, storeVars>>

\* decryptMessage is called with the arguments of encryptMessage, of which
\* at most one is replaced.
NextCodec ==
    \/ encryptStep
    \/ \E envelope2 \in Altered(codec.envelope) :
          decryptStep(codec.id, codec.key, envelope2)
    \/ \E id2 \in CodecAads : decryptStep(id2, codec.key, codec.envelope)
    \/ \E key2 \in CodecKeys \cup {toUpperCase(codec.key)} :
          decryptStep(codec.id, key2, codec.envelope)

SpecCodec == InitCodec /\ [][NextCodec]_vars

\* ================================================================ claims
\* Vocabulary of the statements, written without the operators above.

\* The text of a string before its first '#'.
RECURSIVE BeforeHash(_)
BeforeHash(s) ==
    IF s = <<>> \/ Head(s) = "#" THEN <<>>
    ELSE <<Head(s)>> \o BeforeHash(Tail(s))

RowsOf(tbl, id) == { r \in tbl : r.id = id }
ActiveOf(tbl, id) == { r \in tbl : r.id = id /\ r.status = "active" }
RowAt(tbl, id, v) == { r \in tbl : r.id = id /\ r.version = v }
IsMember(tbl, id, did) == tbl[<<id, did>>] >= 1

\* The step just taken completed a call of `op` (last is its outcome).
Called(op) == last' # last /\ last'.op = op

\* C1: every group id that has at least one record has exactly one record
\* with status active, and all its other records have status revoked.
C1_OneActive ==
    \A g \in GroupIds :
        RowsOf(groups, g) # {} =>
            /\ Cardinality(ActiveOf(groups, g)) = 1
            /\ \A r \in RowsOf(groups, g) : r.status \in {"active", "revoked"}

\* A group that has been rotated: two records, one of them revoked.
C1_Witness ==
    \E g \in GroupIds :
        /\ Cardinality(RowsOf(groups, g)) >= 2
        /\ \E r \in RowsOf(groups, g) : r.status = "revoked"
        /\ last.op = "rotateGroupKey" /\ last.status = 200

\* C2: when getGroupKey selects an existing record (the active one, or the
\* requested version), it returns that record's secret key to the record's
\* owner and to current members, and fails with 403 and no key for anyone
\* else.
C2_AccessControl ==
    [][ Called("getGroupKey") =>
          LET o == last'
              sel == IF o.version = Undefined
                     THEN ActiveOf(groups, o.group_id)
                     ELSE RowAt(groups, o.group_id, o.version)
          IN  \A r \in sel :
                IF r.owner_did = o.authed_did
                   \/ IsMember(group_members, o.group_id, o.authed_did)
                THEN o.status = 200 /\ o.key = r.secret_key
                ELSE o.status = 403 /\ o.key = NoKey ]_vars

\* A member who is not the owner has fetched a revoked version.
C2_Witness ==
    /\ last.op = "getGroupKey" /\ last.status = 200
    /\ last.version # Undefined
    /\ \E r \in RowAt(groups, last.group_id, last.version) :
          /\ r.owner_did # last.authed_did
          /\ r.status = "revoked"
          /\ r.secret_key = last.key

\* C3: getGroupKey without a version on a group id with no active record
\* creates exactly one record (version 1, active, owner = caller) and
\* returns its secret when the caller is the text before '#'; any other
\* caller gets 404 and nothing is created.
C3_LazyCreate ==
    [][ ( /\ Called("getGroupKey")
          /\ last'.version = Undefined
          /\ ActiveOf(groups, last'.group_id) = {} )
        => LET o == last'
           IN  IF o.authed_did = BeforeHash(o.group_id)
               THEN \E r \in groups' \ groups :
                      /\ groups' = groups \cup {r}
                      /\ r.id = o.group_id /\ r.version = 1
                      /\ r.status = "active" /\ r.owner_did = o.authed_did
                      /\ o.status = 200 /\ o.key = r.secret_key
               ELSE o.status = 404 /\ o.key = NoKey /\ groups' = groups ]_vars

\* The owner has just created its group by asking for the key.
C3_Witness ==
    /\ last.op = "getGroupKey" /\ last.status = 200
    /\ last.version = Undefined
    /\ last.authed_did = BeforeHash(last.group_id)
    /\ \E r \in RowsOf(groups, last.group_id) :
          r.version = 1 /\ r.secret_key = last.key /\ r.status = "active"
    /\ Cardinality(RowsOf(groups, last.group_id)) = 1

\* C4: getGroupKey with an explicit version never creates a record: it
\* fails with 404 for every caller when record (groupId, version) is
\* missing, and selects the record, active or revoked, when it exists.
C4_ExplicitVersion ==
    [][ ( Called("getGroupKey") /\ last'.version # Undefined )
        => LET o == last'
               sel == RowAt(groups, o.group_id, o.version)
           IN  /\ groups' = groups
               /\ IF sel = {}
                  THEN o.status = 404 /\ o.key = NoKey
                  ELSE /\ o.status \in {200, 403}
                       /\ o.status = 200 =>
                            \E r \in sel : o.key = r.secret_key ]_vars

\* The owner asked for a version its existing group does not have.
C4_Witness ==
    /\ last.op = "getGroupKey" /\ last.status = 404
    /\ last.version >= 1
    /\ last.authed_did = BeforeHash(last.group_id)
    /\ RowsOf(groups, last.group_id) # {}
    /\ RowAt(groups, last.group_id, last.version) = {}

\* Identity-key rows, by identity.
KeysOf(tbl, did) == { r \in tbl : r.did = did }

\* C5: after a successful rotation returning {oldVersion, newVersion}, the
\* record at oldVersion is revoked, the active record has version
\* oldVersion + 1 = newVersion, and its key material differs from that of
\* every earlier version of the id (groups and identities alike).
C5_Rotation ==
    /\ (last.op = "rotateGroupKey" /\ last.status = 200) =>
          LET rows == RowsOf(groups, last.group_id)
          IN  /\ last.newVersion = last.oldVersion + 1
              /\ \E r \in rows : r.version = last.oldVersion
              /\ \A r \in rows :
                    r.version = last.oldVersion => r.status = "revoked"
              /\ \E a \in rows :
                    /\ a.version = last.newVersion
                    /\ \A r \in rows : r.status = "active" <=> r = a
                    /\ \A r \in rows :
                          r.version # a.version =>
                              r.secret_key # a.secret_key
    /\ (last.op = "rotateKeypair" /\ last.status = 200) =>
          LET rows == KeysOf(keys, last.authed_did)
          IN  /\ last.newVersion = last.oldVersion + 1
              /\ \E r \in rows : r.version = last.oldVersion
              /\ \A r \in rows :
                    r.version = last.oldVersion => r.status = "revoked"
              /\ \E a \in rows :
                    /\ a.version = last.newVersion
                    /\ \A r \in rows : r.status = "active" <=> r = a
                    /\ \A r \in rows :
                          r.version # a.version =>
                              /\ r.private_key # a.private_key
                              /\ r.public_key # a.public_key

\* A group has just been rotated for the second time, and an identity key
\* has been rotated before.
C5_Witness ==
    /\ last.op = "rotateGroupKey" /\ last.status = 200
    /\ last.oldVersion = 2 /\ last.newVersion = 3
    /\ Cardinality(RowsOf(groups, last.group_id)) = 3
    /\ \E k \in keys : k.status = "revoked"

\* C6: rotateGroupKey fails with 404 when the group has no record and with
\* 403 when the caller is not the owner of the existing group, leaving the
\* group records as they were; it succeeds only for the owner.
C6_RotateGuard ==
    [][ Called("rotateGroupKey") =>
          LET o == last'
              rows == RowsOf(groups, o.group_id)
          IN  IF rows = {}
              THEN o.status = 404 /\ groups' = groups
              ELSE IF \E r \in rows : r.owner_did # o.authed_did
                   THEN o.status = 403 /\ groups' = groups
                   ELSE o.status = 200 ]_vars

\* A caller who is not the owner was refused on an existing group.
C6_Witness ==
    /\ last.op = "rotateGroupKey" /\ last.status = 403
    /\ \E r \in RowsOf(groups, last.group_id) :
          r.owner_did # last.authed_did

\* C7: the versions of an id's records are exactly 1..n without gaps or
\* duplicates, and a successful rotation inserts exactly one record, whose
\* version is the previous active version plus 1.
C7_Versions ==
    [][ /\ \A g \in GroupIds :
              LET rows == RowsOf(groups', g)
              IN  /\ { r.version : r \in rows } = 1..Cardinality(rows)
        /\ (Called("rotateGroupKey") /\ last'.status = 200) =>
              LET g == last'.group_id
                  before == { r.version : r \in RowsOf(groups, g) }
                  after == { r.version : r \in RowsOf(groups', g) }
              IN  /\ Cardinality(groups') = Cardinality(groups) + 1
                  /\ \E a \in ActiveOf(groups, g) :
                        after = before \cup {a.version + 1}
                  /\ \A h \in GroupIds \ {g} :
                        RowsOf(groups', h) = RowsOf(groups, h) ]_vars

\* Both groups exist and one of them has versions 1 and 2.
C7_Witness ==
    /\ \A g \in GroupIds : RowsOf(groups, g) # {}
    /\ \E g \in GroupIds :
          { r.version : r \in RowsOf(groups, g) } = {1, 2}

\* C8: a record whose status is revoked is revoked in every later state;
\* no operation on group keys, members or identity keys makes it active
\* again.
C8_RevokedForever ==
    [][ /\ \A r \in groups :
              r.status = "revoked" =>
                  /\ RowAt(groups', r.id, r.version) # {}
                  /\ \A q \in RowAt(groups', r.id, r.version) :
                        q.status = "revoked"
        /\ \A r \in keys :
              r.status = "revoked" =>
                  /\ \E q \in keys' :
                        q.did = r.did /\ q.version = r.version
                  /\ \A q \in keys' :
                        (q.did = r.did /\ q.version = r.version) =>
                            q.status = "revoked" ]_vars

\* Version 1 of a group is still revoked after a second rotation, and the
\* identity's version 1 after its second rotation.
C8_Witness ==
    /\ \E r \in groups : r.version = 1 /\ r.status = "revoked"
    /\ \E r \in groups : r.version = 3
    /\ \E k \in keys : k.version = 1 /\ k.status = "revoked"
    /\ \E k \in keys : k.version = 3

\* C9: no step deletes a group record or changes its secret key, owner or
\* creation time; a record changes only by being revoked in a rotation of
\* its group.  So the owner's getGroupKey for version v returns the one
\* secret that version has had since it was created.
C9_Immutable ==
    [][ /\ \A r \in groups :
              /\ \E q \in RowAt(groups', r.id, r.version) :
                    \/ q = r
                    \/ /\ Called("rotateGroupKey") /\ last'.status = 200
                       /\ last'.group_id = r.id
                       /\ r.status = "active"
                       /\ q = [r EXCEPT !.status = "revoked",
                                        !.revoked_at = q.revoked_at]
              /\ \A q \in RowAt(groups', r.id, r.version) :
                    /\ q.secret_key = r.secret_key
                    /\ q.owner_did = r.owner_did
                    /\ q.created_at = r.created_at
        /\ ( /\ Called("getGroupKey") /\ last'.status = 200
             /\ last'.version # Undefined
             /\ last'.authed_did = BeforeHash(last'.group_id) )
           => \A r \in RowAt(groups, last'.group_id, last'.version) :
                 last'.key = r.secret_key ]_vars

\* After a rotation, a membership change and a tick of the clock, the owner
\* has fetched version 1 and got the secret it was created with.
C9_Witness ==
    /\ last.op = "getGroupKey" /\ last.status = 200 /\ last.version = 1
    /\ last.authed_did = BeforeHash(last.group_id)
    /\ \E r \in RowAt(groups, last.group_id, 1) :
          /\ r.status = "revoked" /\ r.secret_key = last.key
          /\ r.created_at < r.revoked_at
    /\ \E m \in MemberDids : IsMember(group_members, last.group_id, m)

\* C10: on an existing group, the owner's addMember of a current member
\* fails with 409 and adds no row, of a non-member succeeds with one row;
\* the owner's removeMember of a member succeeds and leaves no row, of a
\* non-member fails with 404.  No (group, member) pair ever has two rows.
C10_Membership ==
    [][ /\ \A p \in DOMAIN group_members' : group_members'[p] <= 1
        /\ \A op \in {"addMember", "removeMember"} :
              ( /\ Called(op)
                /\ ActiveOf(groups, last'.group_id) # {}
                /\ \A r \in ActiveOf(groups, last'.group_id) :
                      r.owner_did = last'.authed_did )
              => LET o == last'
                     p == <<o.group_id, o.member_did>>
                     was == IsMember(group_members, o.group_id, o.member_did)
                 IN  IF op = "addMember"
                     THEN IF was
                          THEN /\ o.status = 409
                               /\ group_members' = group_members
                          ELSE /\ o.status = 200
                               /\ group_members' =
                                     [group_members EXCEPT ![p] = 1]
                     ELSE IF was
                          THEN /\ o.status = 200
                               /\ group_members' =
                                     [group_members EXCEPT ![p] = 0]
                          ELSE /\ o.status = 404
                               /\ group_members' = group_members ]_vars

\* The owner's second addMember of the same member was refused.
C10_Witness ==
    /\ last.op = "addMember" /\ last.status = 409
    /\ group_members[<<last.group_id, last.member_did>>] = 1
    /\ \A r \in ActiveOf(groups, last.group_id) :
          r.owner_did = last.authed_did

\* C11: addMember and removeMember fail with 404 when the group has no
\* active record and with 403 when the caller is not its owner; every
\* failing call leaves the membership table unchanged, and the table
\* changes only in a successful call made by the group's owner.
C11_OwnerOnly ==
    [][ /\ \A op \in {"addMember", "removeMember"} :
              Called(op) =>
                LET o == last'
                    act == ActiveOf(groups, o.group_id)
                IN  /\ act = {} => o.status = 404
                    /\ (act # {} /\ \E r \in act :
                                      r.owner_did # o.authed_did)
                          => o.status = 403
                    /\ o.status # 200 => group_members' = group_members
        /\ group_members' # group_members =>
              /\ last'.op \in {"addMember", "removeMember"}
              /\ last'.status = 200
              /\ ActiveOf(groups, last'.group_id) # {}
              /\ \A r \in ActiveOf(groups, last'.group_id) :
                    r.owner_did = last'.authed_did
              /\ \A p \in DOMAIN group_members :
                    p # <<last'.group_id, last'.member_did>> =>
                        group_members'[p] = group_members[p] ]_vars

\* A caller who is not the owner tried to remove a current member and was
\* refused; the member is still there.
C11_Witness ==
    /\ last.op = "removeMember" /\ last.status = 403
    /\ IsMember(group_members, last.group_id, last.member_did)
    /\ \E r \in ActiveOf(groups, last.group_id) :
          r.owner_did # last.authed_did

\* C12: a caller who is not the owner gets a group key exactly while it
\* is a member: after the owner's removeMember it is no member, it stays
\* none until an addMember for it succeeds, and meanwhile every getGroupKey
\* it makes on an existing record, active or requested by version, also a
\* version it was given before, fails with 403.
C12_RemovedIsRefused ==
    [][ /\ Called("getGroupKey") =>
              LET o == last'
                  sel == IF o.version = Undefined
                         THEN ActiveOf(groups, o.group_id)
                         ELSE RowAt(groups, o.group_id, o.version)
              IN  \A r \in sel :
                    r.owner_did # o.authed_did =>
                        IF IsMember(group_members, o.group_id, o.authed_did)
                        THEN o.status = 200 /\ o.key = r.secret_key
                        ELSE o.status = 403 /\ o.key = NoKey
        /\ (Called("removeMember") /\ last'.status = 200) =>
              ~IsMember(group_members', last'.group_id, last'.member_did)
        /\ \A g \in GroupIds, d \in Dids :
              ( /\ ~IsMember(group_members, g, d)
                /\ IsMember(group_members', g, d) )
              => /\ Called("addMember") /\ last'.status = 200
                 /\ last'.group_id = g /\ last'.member_did = d ]_vars

\* A caller was given version 1 while a member, was removed, and has now
\* been refused that same version.
C12_Witness ==
    /\ last.op = "getGroupKey" /\ last.status = 403 /\ last.version = 1
    /\ <<last.group_id, last.authed_did, 1>> \in granted
    /\ ~IsMember(group_members, last.group_id, last.authed_did)
    /\ RowAt(groups, last.group_id, 1) # {}

\* C17: listGroupKeyVersions fails with 404 when the group has no active
\* record and with 403 when the caller is neither owner nor member;
\* otherwise it returns every record of the group exactly once, in
\* strictly descending order of version.
C17_ListVersions ==
    [][ Called("listGroupKeyVersions") =>
          LET o == last'
              act == ActiveOf(groups, o.group_id)
              rows == RowsOf(groups, o.group_id)
              list == o.versions
          IN  /\ groups' = groups /\ group_members' = group_members
              /\ IF act = {}
                 THEN o.status = 404
                 ELSE IF /\ \A r \in act : r.owner_did # o.authed_did
                         /\ ~IsMember(group_members, o.group_id, o.authed_did)
                      THEN o.status = 403
                      ELSE /\ o.status = 200
                           /\ Len(list) = Cardinality(rows)
                           /\ \A r \in rows : \E i \in 1..Len(list) :
                                 /\ list[i].version = r.version
                                 /\ list[i].status = r.status
                                 /\ list[i].created_at = r.created_at
                                 /\ list[i].revoked_at = r.revoked_at
                           /\ \A i, j \in 1..Len(list) :
                                 i < j =>
                                   list[i].version > list[j].version ]_vars

\* A member who is not the owner has listed a group with three versions.
C17_Witness ==
    /\ last.op = "listGroupKeyVersions" /\ last.status = 200
    /\ Len(last.versions) = 3
    /\ last.versions[1].status = "active"
    /\ last.authed_did # BeforeHash(last.group_id)

\* Completed requests of SpecRace.
DoneCalls(op) == { c \in CallIds : calls[c].pc = "done" /\ calls[c].op = op }

\* C13: when getKeypair calls for one identity without a key overlap, the
\* keys table never holds two rows for the identity, and every call
\* completes without an error and returns the keypair of the stored row.
C13_LoserRereads ==
    \A c \in DoneCalls("getKeypair") :
        /\ Cardinality(KeysOf(keyTable, calls[c].did)) <= 1
        /\ calls[c].status = 200
        /\ \E r \in KeysOf(keyTable, calls[c].did) :
              /\ r.public_key = calls[c].publicKey
              /\ r.private_key = calls[c].privateKey

\* C14: however many getGroupKey calls by the owner are in flight for a
\* group id without a record, the id gets one record at version 1 and
\* every such call succeeds with the key material of that record.
C14_ConcurrentCreate ==
    \A g \in GroupIds :
        /\ Cardinality(RowAt(groups, g, 1)) <= 1
        /\ \A c \in DoneCalls("getGroupKey") :
              (calls[c].group_id = g /\ calls[c].did = BeforeHash(g))
                 => /\ calls[c].status = 200
                    /\ \E r \in RowAt(groups, g, 1) :
                          calls[c].key = r.secret_key

C14_Witness ==
    \E g \in GroupIds :
        /\ Cardinality({ c \in DoneCalls("getGroupKey") :
                           /\ calls[c].group_id = g
                           /\ calls[c].did = BeforeHash(g)
                           /\ calls[c].status = 200 }) = MaxCalls
        /\ Cardinality(RowsOf(groups, g)) = 1

\* C15: a getKeypair call that finds a row for the identity returns that
\* row's public and private key and writes nothing; a call that inserts
\* when no row exists returns what it inserted; rows are never replaced or
\* removed, so any two successful calls for one identity return the same
\* keypair.
C15_Idempotent ==
    [][ /\ keyTable \subseteq keyTable'
        /\ \A c \in CallIds :
              /\ ( /\ calls[c].pc = "idle"
                   /\ calls'[c].op = "getKeypair"
                   /\ KeysOf(keyTable, calls'[c].did) # {} )
                    => /\ keyTable' = keyTable
                       /\ drawn' = drawn
                       /\ calls'[c].pc = "done"
                       /\ calls'[c].status = 200
                       /\ \E r \in KeysOf(keyTable, calls'[c].did) :
                             /\ r.public_key = calls'[c].publicKey
                             /\ r.private_key = calls'[c].privateKey
              /\ ( /\ calls[c].pc = "await"
                   /\ calls'[c].pc = "done"
                   /\ KeysOf(keyTable, calls[c].did) = {} )
                    => /\ calls'[c].status = 200
                       /\ keyTable' = keyTable \cup
                            {[did |-> calls[c].did,
                              public_key |-> calls'[c].publicKey,
                              private_key |-> calls'[c].privateKey]}
        /\ \A c1, c2 \in CallIds :
              ( /\ calls'[c1].pc = "done" /\ calls'[c2].pc = "done"
                /\ calls'[c1].op = "getKeypair"
                /\ calls'[c2].op = "getKeypair"
                /\ calls'[c1].did = calls'[c2].did
                /\ calls'[c1].status = 200 /\ calls'[c2].status = 200 )
                 => /\ calls'[c1].publicKey = calls'[c2].publicKey
                    /\ calls'[c1].privateKey = calls'[c2].privateKey
      ]_vars

C15_Witness ==
    \E c1, c2 \in CallIds :
        /\ c1 # c2
        /\ calls[c1].pc = "done" /\ calls[c2].pc = "done"
        /\ calls[c1].op = "getKeypair" /\ calls[c2].op = "getKeypair"
        /\ calls[c1].did = calls[c2].did
        /\ calls[c1].status = 200 /\ calls[c2].status = 200
        /\ calls[c1].privateKey # NoKey
        /\ calls[c1].kp.privateKey # NoKey
        /\ calls[c2].kp.privateKey = NoKey
        /\ drawn = 1

\* C16: a request whose audit-log write failed is answered with the same
\* successful response as if the write had succeeded: status 200 and the
\* key material its retrieval returned.
C16_LogIsolated ==
    \A c \in CallIds :
        resp[c].logged = "failed"
           => /\ resp[c].status = 200
              /\ resp[c].publicKey = calls[c].publicKey
              /\ resp[c].secretKey = calls[c].key

\* C20: a query that runs between the UPDATE and the INSERT of a rotation
\* of a group sees exactly one active version of that group, never zero and
\* never two.
C20_AtomicRotation ==
    observed.midRotation => observed.active = 1

\* C18: decryptMessage(aad, key, encryptMessage(aad, key, plaintext)) is
\* plaintext, for every input and every nonce.
C18_RoundTrip ==
    ( /\ codec.pc = "opened"
      /\ codec.id2 = codec.id /\ codec.key2 = codec.key
      /\ codec.envelope2 = codec.envelope )
       => /\ codec.result.ok
          /\ codec.result.text = codec.plaintext

\* The arguments of the decryptMessage call differ from those of the
\* encryptMessage call that made the envelope.
Opened == codec.pc = "opened"
ArgsDiffer ==
    \/ codec.id2 # codec.id
    \/ codec.key2 # codec.key
    \/ codec.envelope2 # codec.envelope

\* Two hex strings with the same digits, letter case aside.
SameHex(x, y) ==
    /\ Len(x) = Len(y)
    /\ \A i \in 1..Len(x) :
          \/ x[i] = y[i]
          \/ {x[i], y[i]} \in {{"a", "A"}, {"b", "B"}, {"c", "C"},
                                {"d", "D"}, {"e", "E"}, {"f", "F"}}

\* C19 as stated: decrypting with a different aad, a different key or an
\* envelope altered anywhere fails and returns no plaintext.
C19_FailsClosed ==
    (Opened /\ ArgsDiffer) => ~codec.result.ok

\* C19, amended: decrypting with an aad whose UTF-8 encoding differs, with
\* a key or an envelope whose hex digits differ other than in letter case,
\* throws and returns no plaintext.
C19_FailsClosedOnBytes ==
    ( /\ Opened
      /\ \/ utf8ToBytes(codec.id2) # utf8ToBytes(codec.id)
         \/ ~SameHex(codec.key2, codec.key)
         \/ ~SameHex(codec.envelope2, codec.envelope) )
       => /\ ~codec.result.ok
          /\ codec.result.text = <<>>

C19_Witness ==
    /\ Opened
    /\ codec.plaintext # <<>>
    /\ Len(codec.envelope2) = Len(codec.envelope)
    /\ \E i \in (NONCE_LENGTH * 2 + 1)..Len(codec.envelope) :
          /\ codec.envelope2[i] = "0"
          /\ codec.envelope[i] # "0"
    /\ codec.result.error = "invalid tag"
    /\ ~codec.result.ok

\* C21: when the INSERT of a rotation fails after its UPDATE has run, the
\* records of the group are exactly those from before the call, the
\* version that was active is still active, and the caller gets the
\* failure.
C21_RolledBack ==
    rot.pc = "failed"
       => /\ RowsOf(groups, rot.group_id) = rot.before
          /\ \E r \in ActiveOf(groups, rot.group_id) :
                r.version = rot.version
          /\ last.op = "rotateGroupKey" /\ last.status = Thrown

\* C22: every record of a group id has as owner the text of the id before
\* its first '#', and all records of one id have the same owner.
C22_OwnerEmbedded ==
    \A r \in groups :
        /\ r.owner_did = BeforeHash(r.id)
        /\ \A q \in RowsOf(groups, r.id) : q.owner_did = r.owner_did

\* A group whose id holds a '#' has been rotated: two records, one owner.
C22_Witness ==
    \E r \in groups :
        /\ r.id # BeforeHash(r.id)
        /\ r.version = 2
        /\ RowAt(groups, r.id, 1) # {}
        /\ r.owner_did = BeforeHash(r.id)

\* C23: a record has a revoked_at timestamp exactly when its status is
\* revoked; a record that appears is active without revoked_at, and a
\* record that becomes revoked gets its revoked_at in the same step.
C23_RevokedAtIffRevoked ==
    [][ /\ \A r \in groups' :
              /\ (r.revoked_at # Null) <=> (r.status = "revoked")
              /\ RowAt(groups, r.id, r.version) = {}
                    => r.status = "active" /\ r.revoked_at = Null
        /\ \A r \in groups :
              r.status = "active"
                 => \A q \in RowAt(groups', r.id, r.version) :
                       \/ q = r
                       \/ /\ q.status = "revoked"
                          /\ q.revoked_at = clock
                          /\ Called("rotateGroupKey")
      ]_vars

C23_Witness ==
    \E r, q \in groups :
        /\ r.id = q.id
        /\ r.status = "revoked" /\ r.revoked_at # Null
        /\ r.revoked_at > r.created_at
        /\ q.status = "active" /\ q.revoked_at = Null

\* C24: a successful group key request reports, and writes to the access
\* log, the version of the record whose secret key it returns, also when
\* no version was requested and the active version is above 1.
C24_VersionReported ==
    \A c \in CallIds :
        (route[c] = "group.key" /\ resp[c].status = 200)
           => \E r \in RowsOf(groups, calls[c].group_id) :
                 /\ r.secret_key = resp[c].secretKey
                 /\ r.version = resp[c].version
                 /\ \E i \in 1..Len(key_access_log) :
                       /\ key_access_log[i].did = r.id
                       /\ key_access_log[i].version = r.version

\* C25: a rotation leaves the membership table as it was; afterwards, as
\* before, a getGroupKey for the active version by a caller other than the
\* owner returns the active secret key when the caller is a member and is
\* refused with 403 when it is not.
C25_RotationKeepsMembers ==
    [][ /\ Called("rotateGroupKey") => group_members' = group_members
        /\ ( /\ Called("getGroupKey")
             /\ last'.version = Undefined
             /\ last'.authed_did # BeforeHash(last'.group_id)
             /\ RowsOf(groups, last'.group_id) # {} )
           => IF IsMember(group_members, last'.group_id, last'.authed_did)
              THEN /\ last'.status = 200
                   /\ \E r \in ActiveOf(groups, last'.group_id) :
                         last'.key = r.secret_key
              ELSE last'.status = 403 /\ last'.key = NoKey
      ]_vars

\* A member who was given version 1 has, after a rotation, been given the
\* active version 2.
C25_Witness ==
    /\ last.op = "getGroupKey" /\ last.status = 200
    /\ last.version = Undefined
    /\ last.authed_did # BeforeHash(last.group_id)
    /\ <<last.group_id, last.authed_did, 1>> \in granted
    /\ <<last.group_id, last.authed_did, 2>> \in granted
    /\ \E r \in ActiveOf(groups, last.group_id) :
          r.version = 2 /\ r.secret_key = last.key

====
